---- MODULE Spec2Model ----
(***************************************************************************)
(* State-machine model of the SLIM <-> MCP proxy (mcp-proxy/src/proxy.rs  *)
(* and the startup in mcp-proxy/src/main.rs).                              *)
(*                                                                         *)
(* One Proxy controller task (Proxy::start) consumes the notification      *)
(* stream of the session service and spawns one relay task per new session *)
(* (start_proxy_session).  Every relay task multiplexes three sources with *)
(* tokio::select!: the session channel rx, the MCP backend stream and the  *)
(* ping-timer channel rx_timer.  One action of the model is one handler of *)
(* the code: one arm of a select! together with everything it executes     *)
(* before the task waits again.                                            *)
(*                                                                         *)
(* ev and out label the last step: ev is the event the step consumed and   *)
(* out is what the step handed to the backend sink (sink.send) and to the  *)
(* fabric (session.publish_to).  firings is a history counter.             *)
(***************************************************************************)
EXTENDS Integers, FiniteSets, Sequences, TLC

\* ---------------------------------------------------------------- constants

\* proxy.rs:35  const MAX_PENDING_PINGS: usize = 3;
MAX_PENDING_PINGS == 3

\* ------------------------------------------------------------------- bounds

\* rand::random::<u32>() draws the ping identifier from 0 .. NumPingIds - 1
NumPingIds == 4
\* connection identifiers carried by inbound fabric messages: 1 .. NumConnIds
NumConnIds == 2
\* distinct message bodies the MCP backend stream can produce
NumMcpBodies == 1
\* the history counter firings saturates at this value
MaxFirings == 3
\* the longest --name string tried, in characters
MaxNameLen == 5

PingIds == 0 .. (NumPingIds - 1)
ConnIds == 1 .. NumConnIds
McpBodies == 1 .. NumMcpBodies

\* ------------------------------------------------------------- data domains

\* SessionId { source, id }: two sessions with the same id under two sources
\* are different keys.
SessionKeys == { <<"a", 1>>, <<"b", 1>> }
\* the sessions the fabric creates in the single-session specification
OneSession == { <<"a", 1>> }

\* The characters of a --name string: the separator and one other character.
Chars == { "a", "/" }
\* every --name string of at most MaxNameLen characters
Names == UNION { [1 .. n -> Chars] : n \in 0 .. MaxNameLen }
\* the --name the proxy of the other specifications was started with
OrgNsType == << "a", "/", "a", "/", "a" >>

\* main.rs:69  name.split('/').collect(): the pieces between the separators,
\* empty pieces included; a string without separator is one piece
RECURSIVE split(_)
split(s) ==
    IF \A i \in 1 .. Len(s) : s[i] # "/"
    THEN << s >>
    ELSE LET i == CHOOSE j \in 1 .. Len(s) :
                      /\ s[j] = "/"
                      /\ \A h \in 1 .. (j - 1) : s[h] # "/"
         IN  << SubSeq(s, 1, i - 1) >> \o split(SubSeq(s, i + 1, Len(s)))

\* Option::None of incoming_conn_id
None == 0
\* NumberOrString::String(_) as a response id, and "no id" of a notification
StrId == -1
NoId == -2

\* The application payload of an inbound fabric message, as it is on the
\* wire.  wire = "absent": get_payload() is None.  wire = "garbage": bytes
\* that serde_json::from_slice rejects.  wire = "json": the serialization of
\* a JSON-RPC envelope of the given kind, result and id.
Blob(w, k, res, i) == [wire |-> w, kind |-> k, result |-> res, id |-> i]
NoBlob == Blob("absent", "none", "none", NoId)
Garbage == Blob("garbage", "none", "none", NoId)
Envelopes ==
    { Blob("json", "Request", "none", 0),
      Blob("json", "Notification", "none", NoId) }
    \cup { Blob("json", "Response", "empty", i) : i \in PingIds \cup {StrId} }
    \cup { Blob("json", "Response", "other", i) : i \in {0, StrId} }
Payloads == {NoBlob, Garbage} \cup Envelopes
\* the payloads of the two-session specification
CoarsePayloads ==
    { NoBlob, Garbage, Blob("json", "Request", "none", 0),
      Blob("json", "Response", "empty", 0) }

\* serde_json::from_slice::<JsonRpcMessage<..>>(&payload): Err on garbage,
\* otherwise the envelope (kind, result, id) the bytes encode.
ParseErr == [kind |-> "ParseError", result |-> "none", id |-> NoId]
from_slice(blob) ==
    IF blob.wire = "json"
    THEN [kind |-> blob.kind, result |-> blob.result, id |-> blob.id]
    ELSE ParseErr

\* serde_json::to_vec of a backend message and of a ping request
\* (ServerJsonRpcMessage::Request with id Number(index), PingRequest).
to_vec_mcp(body) == [what |-> "mcp", body |-> body]
to_vec_ping(index) == [what |-> "ping", body |-> index]

VARIABLES
    name,             \* Args.name, the --name option, as a string of characters
    ctl,              \* main / Proxy::start: "main" | "aborted" | "loop" | "stopped" | "panicked"
    connections,      \* Proxy.connections: HashMap<SessionId, ()>, as its key set
    service,          \* the session service: "idle" | "running" | "shutdown"
    pc,               \* per relay task: Unborn | Spawned | Connecting | Active | Closed
    exit,             \* the statement by which the relay task ended ("none" while it runs)
    incoming_conn_id, \* Option<u64>
    pending_pings,    \* HashSet<u32>
    ping_timer,       \* "none" | "started" | "stopped"  (Timer::start / Timer::stop)
    sink,             \* "none" | "open" | "closed"      (into_transport / sink.close)
    owner,            \* the fabric still holds its owning Arc of the session
    firings,          \* history: timer firings processed since the last pong (saturating)
    ev,               \* the event consumed by the last step
    out               \* the sends of the last step

vars == << name, ctl, connections, service, pc, exit, incoming_conn_id, pending_pings,
           ping_timer, sink, owner, firings, ev, out >>

relayVars == << pc, exit, incoming_conn_id, pending_pings, ping_timer, sink, firings >>

\* ------------------------------------------------------------------ labels

Ctl == <<"ctl", 0>>
Event(by, kind, conn, blob, body, ok) ==
    [by |-> by, kind |-> kind, conn |-> conn, blob |-> blob, body |-> body, ok |-> ok]
\* an event that carries no message
Plain(by, kind) == Event(by, kind, None, NoBlob, 0, TRUE)
\* what a step did: what it sent to the backend sink and to the fabric (at most
\* one message each), whether it initialised the remote routing (line 115)
\* and which pending identifiers it cleared (line 131)
Sent(backend, fabric) ==
    [backend |-> backend, fabric |-> fabric, captured |-> FALSE, cleared |-> {}]
Nothing == Sent(<< >>, << >>)
\* session_arc.publish_to(remote_name, conn, vec, None, None)
publish_to(conn, vec) == [conn |-> conn, what |-> vec.what, body |-> vec.body]

\* -------------------------------------------------------------------- Init

\* the proxy after Proxy::new and the prelude of Proxy::start (lines 226-248):
\* nothing registered, no relay task
Init ==
    /\ name = OrgNsType
    /\ ctl = "loop"
    /\ connections = {}
    /\ service = "running"
    /\ pc = [k \in SessionKeys |-> "Unborn"]
    /\ exit = [k \in SessionKeys |-> "none"]
    /\ incoming_conn_id = [k \in SessionKeys |-> None]
    /\ pending_pings = [k \in SessionKeys |-> {}]
    /\ ping_timer = [k \in SessionKeys |-> "none"]
    /\ sink = [k \in SessionKeys |-> "none"]
    /\ owner = [k \in SessionKeys |-> TRUE]
    /\ firings = [k \in SessionKeys |-> 0]
    /\ ev = Plain(Ctl, "start")
    /\ out = Nothing

\* the process at the entry of main, with any --name
InitMain ==
    /\ name \in Names
    /\ ctl = "main"
    /\ connections = {}
    /\ service = "idle"
    /\ pc = [k \in SessionKeys |-> "Unborn"]
    /\ exit = [k \in SessionKeys |-> "none"]
    /\ incoming_conn_id = [k \in SessionKeys |-> None]
    /\ pending_pings = [k \in SessionKeys |-> {}]
    /\ ping_timer = [k \in SessionKeys |-> "none"]
    /\ sink = [k \in SessionKeys |-> "none"]
    /\ owner = [k \in SessionKeys |-> TRUE]
    /\ firings = [k \in SessionKeys |-> 0]
    /\ ev = Plain(Ctl, "exec")
    /\ out = Nothing

\* ---------------------------------------------------------------- startup

\* main.rs:69-88 and proxy.rs:226-248.  The name is split at '/'; unless that
\* gives three pieces, main logs an error and returns.  Otherwise it loads the
\* configuration, takes the session service from it, builds the Proxy and
\* calls Proxy::start, which creates the app, runs the service, subscribes and
\* enters its loop.
Main ==
    /\ ctl = "main"
    /\ LET v_name == split(name) IN
        IF Len(v_name) # 3
        THEN /\ ctl' = "aborted"
             /\ service' = service
        ELSE /\ ctl' = "loop"
             /\ service' = "running"
    /\ ev' = Plain(Ctl, "main")
    /\ out' = Nothing
    /\ UNCHANGED << name, connections, owner >>
    /\ UNCHANGED relayVars

\* ------------------------------------------------------- Proxy controller

\* start_proxy_session: ctx.spawn_receiver(..) hands the task to the runtime
spawn_receiver(k) == [pc EXCEPT ![k] = "Spawned"]

\* Ok(Notification::NewSession(ctx)): insert the key, spawn the relay
CtlNewSession(k) ==
    /\ ctl = "loop"
    /\ pc[k] = "Unborn"
    /\ owner[k]
    /\ connections' = connections \cup {k}
    /\ pc' = spawn_receiver(k)
    /\ ev' = Plain(k, "new_session")
    /\ out' = Nothing
    /\ UNCHANGED << name, ctl, service, exit, incoming_conn_id, pending_pings,
                    ping_timer, sink, owner, firings >>

\* Ok(Notification::NewMessage(msg)): debug! only
CtlNewMessage ==
    /\ ctl = "loop"
    /\ ev' = Plain(Ctl, "new_message")
    /\ out' = Nothing
    /\ UNCHANGED << name, ctl, connections, service, owner >>
    /\ UNCHANGED relayVars

\* seeded fault: the registry is not cleared on exit
CtlExit_no_clear(kind, ok) ==
    /\ ctl = "loop"
    /\ ctl' = IF ok THEN "stopped" ELSE "panicked"
    /\ connections' = connections
    /\ service' = IF ok THEN "shutdown" ELSE service
    /\ ev' = Event(Ctl, kind, None, NoBlob, 0, ok)
    /\ out' = Nothing
    /\ UNCHANGED << name, owner >>
    /\ UNCHANGED relayVars

\* seeded fault: the exit cancels the relay tasks that still run
CtlExit_cancels(kind, ok) ==
    /\ ctl = "loop"
    /\ ctl' = IF ok THEN "stopped" ELSE "panicked"
    /\ connections' = {}
    /\ service' = IF ok THEN "shutdown" ELSE service
    /\ ev' = Event(Ctl, kind, None, NoBlob, 0, ok)
    /\ out' = Nothing
    /\ pc' = [k \in SessionKeys |->
                IF pc[k] \in {"Spawned", "Connecting", "Active"} THEN "Closed" ELSE pc[k]]
    /\ UNCHANGED << name, owner, exit, incoming_conn_id, pending_pings, ping_timer,
                    sink, firings >>

\* lines 288-291, after the loop: self.connections.clear(), then
\* service.shutdown().await.unwrap(); ok is the result of shutdown(), and the
\* unwrap of an Err panics
CtlExit(kind, ok) ==
    /\ ctl = "loop"
    /\ ctl' = IF ok THEN "stopped" ELSE "panicked"
    /\ connections' = {}
    /\ service' = IF ok THEN "shutdown" ELSE service
    /\ ev' = Event(Ctl, kind, None, NoBlob, 0, ok)
    /\ out' = Nothing
    /\ UNCHANGED << name, owner >>
    /\ UNCHANGED relayVars

\* seeded fault: Err(e) => break
CtlNotificationError_breaks == CtlExit("notif_error", TRUE)

\* Err(e): error! only
CtlNotificationError ==
    /\ ctl = "loop"
    /\ ev' = Plain(Ctl, "notif_error")
    /\ out' = Nothing
    /\ UNCHANGED << name, ctl, connections, service, owner >>
    /\ UNCHANGED relayVars

\* slim_rx.recv() is None: break
CtlStreamEnd(oks) == \E ok \in oks : CtlExit("stream_end", ok)

\* slim_signal::shutdown() resolves: break
CtlShutdownSignal(oks) == \E ok \in oks : CtlExit("shutdown_signal", ok)

\* keys: the sessions the fabric may announce; oks: the results shutdown() may have
CtlNext(keys, oks) ==
    \/ \E k \in keys : CtlNewSession(k)
    \/ CtlNewMessage
    \/ CtlNotificationError
    \/ CtlStreamEnd(oks)
    \/ CtlShutdownSignal(oks)

\* ------------------------------------------------------------ environment

\* the fabric drops its owning reference of session k
DropOwner(k) ==
    /\ pc[k] # "Unborn"
    /\ owner[k]
    /\ owner' = [owner EXCEPT ![k] = FALSE]
    /\ ev' = Plain(k, "drop_owner")
    /\ out' = Nothing
    /\ UNCHANGED << name, ctl, connections, service >>
    /\ UNCHANGED relayVars

\* ------------------------------------------------------------- relay task

\* weak.upgrade() is Some.  `binding` (line 79) is a local of the task's async
\* block and holds the upgraded Arc until the block ends, so the session
\* cannot be freed while the task is past line 79 and has not ended.
upgrade(k) == owner[k] \/ pc[k] \in {"Connecting", "Active"}

\* seeded fault: the pending set is one set shared by all relays
EndTask_shared_pings(k, why) ==
    /\ pc' = [pc EXCEPT ![k] = "Closed"]
    /\ exit' = [exit EXCEPT ![k] = why]
    /\ incoming_conn_id' = [incoming_conn_id EXCEPT ![k] = None]
    /\ pending_pings' = [q \in SessionKeys |-> {}]
    /\ firings' = [firings EXCEPT ![k] = 0]

\* break (or return): the loop is left and the async block ends, which drops
\* its locals incoming_conn_id and pending_pings
EndTask(k, why) ==
    /\ pc' = [pc EXCEPT ![k] = "Closed"]
    /\ exit' = [exit EXCEPT ![k] = why]
    /\ incoming_conn_id' = [incoming_conn_id EXCEPT ![k] = None]
    /\ pending_pings' = [pending_pings EXCEPT ![k] = {}]
    /\ firings' = [firings EXCEPT ![k] = 0]

\* ping_timer.stop(); let _ = sink.close().await; break;
DrainAndBreak(k, why) ==
    /\ ping_timer' = [ping_timer EXCEPT ![k] = "stopped"]
    /\ sink' = [sink EXCEPT ![k] = "closed"]
    /\ EndTask(k, why)

\* break; with nothing before it
BreakOnly(k, why) ==
    /\ UNCHANGED << ping_timer, sink >>
    /\ EndTask(k, why)

\* lines 77-80: weak.upgrade(), binding.as_ref().unwrap(): the unwrap panics
\* (the task ends) if the session is already gone.
TaskStart(k) ==
    /\ pc[k] = "Spawned"
    /\ IF upgrade(k)
       THEN /\ pc' = [pc EXCEPT ![k] = "Connecting"]
            /\ UNCHANGED << exit, incoming_conn_id, pending_pings, firings >>
       ELSE EndTask(k, "panic")
    /\ ev' = Plain(k, "task_start")
    /\ out' = Nothing
    /\ UNCHANGED << name, ctl, connections, service, ping_timer, sink, owner >>

\* seeded fault: the return after the failed connection is missing
Connect_no_return(k, ok) ==
    /\ pc[k] = "Connecting"
    /\ pc' = [pc EXCEPT ![k] = "Active"]
    /\ exit' = exit
    /\ sink' = [sink EXCEPT ![k] = IF ok THEN "open" ELSE @]
    /\ ping_timer' = [ping_timer EXCEPT ![k] = "started"]
    /\ pending_pings' = [pending_pings EXCEPT ![k] = {}]
    /\ UNCHANGED << incoming_conn_id, firings >>
    /\ ev' = Event(k, "connect", None, NoBlob, 0, ok)
    /\ out' = Nothing
    /\ UNCHANGED << name, ctl, connections, service, owner >>

\* lines 85-99: SseTransport::start(mcp_server).await, then the timer
Connect(k, ok) ==
    /\ pc[k] = "Connecting"
    /\ IF ok
       THEN /\ pc' = [pc EXCEPT ![k] = "Active"]
            /\ exit' = exit
            /\ sink' = [sink EXCEPT ![k] = "open"]
            /\ ping_timer' = [ping_timer EXCEPT ![k] = "started"]
            /\ pending_pings' = [pending_pings EXCEPT ![k] = {}]
            /\ UNCHANGED << incoming_conn_id, firings >>
       ELSE /\ EndTask(k, "connect_failed")
            /\ UNCHANGED << sink, ping_timer >>
    /\ ev' = Event(k, "connect", None, NoBlob, 0, ok)
    /\ out' = Nothing
    /\ UNCHANGED << name, ctl, connections, service, owner >>

\* seeded fault: every message overwrites the connection id
capture_conn_latest(cur, conn) == conn

\* lines 112-116: the first message's connection id is kept
capture_conn(cur, conn) == IF cur = None THEN conn ELSE cur

\* seeded fault: a pong is recognised by its shape alone
is_pong_by_shape(env, pending) ==
    /\ env.kind = "Response"
    /\ env.result = "empty"
    /\ env.id >= 0

\* lines 123-129: Response, EmptyResult(_), id Number(index), index pending
is_pong(env, pending) ==
    /\ env.kind = "Response"
    /\ env.result = "empty"
    /\ env.id >= 0
    /\ env.id \in pending

\* seeded fault: pending_pings.remove(&index)
clear_pings_matched(pending, index) == pending \ {index}

\* line 131: pending_pings.clear(), whatever index matched
clear_pings(pending, index) == {}

\* seeded fault: a message is relayed only once the routing is initialised
to_backend_once_routed(cur, skipped, pong) == cur # None /\ ~skipped /\ ~pong

\* lines 117-153: the message reaches sink.send unless the handler continued
\* before (no payload, parse error) or took it for a pong; cur, the routing
\* captured before this message, plays no part
to_backend(cur, skipped, pong) == ~skipped /\ ~pong

\* seeded fault: the routing check is missing (conn.unwrap_or_default())
has_conn_always(cur) == TRUE

\* lines 172 and 193: if let Some(conn) = incoming_conn_id
has_conn(cur) == cur # None

\* seeded faults: `>` for `>=`; the check left out; the check one too early
pings_exhausted_gt(pending) == Cardinality(pending) > MAX_PENDING_PINGS
pings_exhausted_never(pending) == FALSE
pings_exhausted_early(pending) == Cardinality(pending) >= MAX_PENDING_PINGS - 1

\* line 187: pending_pings.len() >= MAX_PENDING_PINGS
pings_exhausted(pending) == Cardinality(pending) >= MAX_PENDING_PINGS

\* seeded fault: the identifier of the ping is not recorded
insert_ping_forgot(pending, index) == pending

\* line 196: pending_pings.insert(index)
insert_ping(pending, index) == pending \cup {index}

\* the history counter: one more firing processed
count_firing(n) == IF n < MaxFirings THEN n + 1 ELSE MaxFirings

\* lines 105-110: rx.recv() is None
OnSessionClosed(k) ==
    /\ pc[k] = "Active"
    /\ DrainAndBreak(k, "channel_closed")
    /\ ev' = Plain(k, "session_closed")
    /\ out' = Nothing
    /\ UNCHANGED << name, ctl, connections, service, owner >>

\* lines 155-160: rx.recv() is Some(Err(e))
OnSessionError(k) ==
    /\ pc[k] = "Active"
    /\ DrainAndBreak(k, "channel_error")
    /\ ev' = Plain(k, "session_error")
    /\ out' = Nothing
    /\ UNCHANGED << name, ctl, connections, service, owner >>

\* seeded fault: `break` for `continue` on a payload that does not parse
OnSessionMessage_break_on_bad(k, conn, blob, ok) ==
    LET env == from_slice(blob)
        skipped == blob.wire = "absent" \/ env = ParseErr
        pong == ~skipped /\ is_pong(env, pending_pings[k])
        forwarded == to_backend(incoming_conn_id[k], skipped, pong)
    IN  /\ pc[k] = "Active"
        /\ ok \/ forwarded
        /\ IF env = ParseErr /\ blob.wire # "absent"
           THEN DrainAndBreak(k, "bad_payload")
           ELSE /\ incoming_conn_id' =
                     [incoming_conn_id EXCEPT
                        ![k] = capture_conn(incoming_conn_id[k], conn)]
                /\ pending_pings' =
                     [pending_pings EXCEPT
                        ![k] = IF pong THEN clear_pings(@, env.id) ELSE @]
                /\ firings' = [firings EXCEPT ![k] = IF pong THEN 0 ELSE @]
                /\ UNCHANGED << pc, exit, ping_timer, sink >>
        /\ out' = [(IF forwarded THEN Sent(<< env >>, << >>) ELSE Nothing) EXCEPT
                     !.captured = (incoming_conn_id[k] = None),
                     !.cleared = IF pong THEN pending_pings[k] ELSE {}]
        /\ ev' = Event(k, "session_msg", conn, blob, 0, ok)
        /\ UNCHANGED << name, ctl, connections, service, owner >>

\* lines 111-154: rx.recv() is Some(Ok(message)); conn is
\* message.get_incoming_conn(), blob its payload, ok the result of sink.send
OnSessionMessage(k, conn, blob, ok) ==
    LET env == from_slice(blob)
        skipped == blob.wire = "absent" \/ env = ParseErr
        pong == ~skipped /\ is_pong(env, pending_pings[k])
        forwarded == to_backend(incoming_conn_id[k], skipped, pong)
    IN  /\ pc[k] = "Active"
        /\ ok \/ forwarded
        /\ incoming_conn_id' =
             [incoming_conn_id EXCEPT ![k] = capture_conn(incoming_conn_id[k], conn)]
        /\ pending_pings' =
             [pending_pings EXCEPT ![k] = IF pong THEN clear_pings(@, env.id) ELSE @]
        /\ firings' = [firings EXCEPT ![k] = IF pong THEN 0 ELSE @]
        /\ out' = [(IF forwarded THEN Sent(<< env >>, << >>) ELSE Nothing) EXCEPT
                     !.captured = (incoming_conn_id[k] = None),
                     !.cleared = IF pong THEN pending_pings[k] ELSE {}]
        /\ ev' = Event(k, "session_msg", conn, blob, 0, ok)
        /\ UNCHANGED << name, ctl, connections, service, pc, exit, ping_timer, sink, owner >>

\* lines 165-170: stream.next() is None
OnMcpEnd(k) ==
    /\ pc[k] = "Active"
    /\ DrainAndBreak(k, "mcp_end")
    /\ ev' = Plain(k, "mcp_end")
    /\ out' = Nothing
    /\ UNCHANGED << name, ctl, connections, service, owner >>

\* lines 171-180: stream.next() is Some(msg); ok is the result of publish_to
OnMcpMessage(k, body, ok) ==
    LET routed == has_conn(incoming_conn_id[k])
        published == routed /\ upgrade(k)
    IN  /\ pc[k] = "Active"
        /\ ok \/ published
        /\ IF routed /\ ~upgrade(k)
           THEN BreakOnly(k, "session_dropped")
           ELSE UNCHANGED relayVars
        /\ out' = IF published
                  THEN Sent(<< >>, << publish_to(incoming_conn_id[k], to_vec_mcp(body)) >>)
                  ELSE Nothing
        /\ ev' = Event(k, "mcp_msg", None, NoBlob, body, ok)
        /\ UNCHANGED << name, ctl, connections, service, owner >>

\* line 185: rx_timer.recv() is None
OnTimerClosed(k) ==
    /\ pc[k] = "Active"
    /\ BreakOnly(k, "timer_closed")
    /\ ev' = Plain(k, "timer_closed")
    /\ out' = Nothing
    /\ UNCHANGED << name, ctl, connections, service, owner >>

\* lines 186-201: rx_timer.recv() is Some(_); index is rand::random::<u32>(),
\* ok the result of publish_to
OnTimer(k, index, ok) ==
    LET exhausted == pings_exhausted(pending_pings[k])
        pinged == ~exhausted /\ has_conn(incoming_conn_id[k]) /\ upgrade(k)
    IN  /\ pc[k] = "Active"
        /\ ok \/ pinged
        /\ IF exhausted
           THEN DrainAndBreak(k, "liveness")
           ELSE /\ pending_pings' =
                     [pending_pings EXCEPT
                        ![k] = IF pinged THEN insert_ping(@, index) ELSE @]
                /\ firings' = [firings EXCEPT ![k] = count_firing(@)]
                /\ UNCHANGED << pc, exit, ping_timer, sink, incoming_conn_id >>
        /\ out' = IF pinged
                  THEN Sent(<< >>, << publish_to(incoming_conn_id[k], to_vec_ping(index)) >>)
                  ELSE Nothing
        /\ ev' = Event(k, "timer", None, NoBlob, 0, ok)
        /\ UNCHANGED << name, ctl, connections, service, owner >>

\* The identifiers rand::random::<u32>() may return, given the pending set:
\* any identifier, or (the two-session specification) only the least one
\* that is not pending.
AnyId == [p \in SUBSET PingIds |-> PingIds]
FreshId ==
    [p \in SUBSET PingIds |->
        IF p = PingIds THEN {0}
        ELSE {CHOOSE i \in PingIds \ p : \A j \in PingIds \ p : i <= j}]

\* one step of relay task k, its inputs drawn from the given sets
RelayNext(k, conns, blobs, bodies, ids) ==
    \/ TaskStart(k)
    \/ \E ok \in BOOLEAN : Connect(k, ok)
    \/ OnSessionClosed(k)
    \/ OnSessionError(k)
    \/ \E conn \in conns, blob \in blobs, ok \in BOOLEAN : OnSessionMessage(k, conn, blob, ok)
    \/ OnMcpEnd(k)
    \/ \E body \in bodies, ok \in BOOLEAN : OnMcpMessage(k, body, ok)
    \/ OnTimerClosed(k)
    \/ \E index \in ids[pending_pings[k]], ok \in BOOLEAN : OnTimer(k, index, ok)

\* --------------------------------------------------------- specifications

\* one session, every input
Next ==
    \/ CtlNext(OneSession, {TRUE})
    \/ \E k \in OneSession : DropOwner(k)
    \/ \E k \in OneSession : RelayNext(k, ConnIds, Payloads, McpBodies, AnyId)

Spec == Init /\ [][Next]_vars

\* two sessions, a coarser choice of inbound messages
NextCtl ==
    \/ CtlNext(SessionKeys, BOOLEAN)
    \/ \E k \in SessionKeys : DropOwner(k)
    \/ \E k \in SessionKeys : RelayNext(k, {1}, CoarsePayloads, {1}, FreshId)

SpecCtl == Init /\ [][NextCtl]_vars

\* the whole process, from the entry of main, with one session
NextMain ==
    \/ Main
    \/ CtlNext(OneSession, {TRUE})
    \/ \E k \in OneSession : DropOwner(k)
    \/ \E k \in OneSession : RelayNext(k, {1}, CoarsePayloads, {1}, FreshId)

SpecMain == InitMain /\ [][NextMain]_vars

\* ------------------------------------------------------------------ claims

\* the step just taken consumed an event of this kind in relay k
Took(k, kind) == ev'.by = k /\ ev'.kind = kind
AtBound(k) == Cardinality(pending_pings[k]) >= MAX_PENDING_PINGS

\* C1: in every reachable state the Pending Ping Set of every relay holds at
\* most MAX_PENDING_PINGS identifiers.
C1_PendingBounded ==
    \A k \in SessionKeys : Cardinality(pending_pings[k]) <= MAX_PENDING_PINGS

\* C1 witness: a timer firing has just filled the set of an Active relay up
\* to the bound.
C1_Witness ==
    \E k \in SessionKeys :
        /\ pc[k] = "Active"
        /\ ev.by = k /\ ev.kind = "timer"
        /\ Cardinality(pending_pings[k]) = MAX_PENDING_PINGS

\* C2 as claimed: once the set of an Active relay has reached the bound, the
\* relay terminates at its next timer firing whatever happens before it: each
\* step either closes the relay or is another event that leaves the set at
\* the bound.
C2_Original ==
    [][\A k \in SessionKeys :
          (pc[k] = "Active" /\ AtBound(k)) =>
             \/ pc'[k] = "Closed"
             \/ /\ ~Took(k, "timer")
                /\ Cardinality(pending_pings'[k]) >= MAX_PENDING_PINGS]_vars

\* C2 amended: once the set of an Active relay has reached the bound, the next
\* timer firing the relay processes terminates it for liveness exhaustion,
\* unless a pong arrives before that firing; the pong empties the set and the
\* relay stays Active.  Any other event closes the relay or leaves the set at
\* the bound.
C2_ExhaustionUnlessPong ==
    [][\A k \in SessionKeys :
          (pc[k] = "Active" /\ AtBound(k)) =>
             IF Took(k, "timer")
             THEN pc'[k] = "Closed" /\ exit'[k] = "liveness"
             ELSE \/ pc'[k] = "Closed"
                  \/ Cardinality(pending_pings'[k]) >= MAX_PENDING_PINGS
                  \/ /\ Took(k, "session_msg")
                     /\ ev'.blob.wire = "json"
                     /\ ev'.blob.kind = "Response"
                     /\ ev'.blob.result = "empty"
                     /\ ev'.blob.id \in pending_pings[k]
                     /\ pending_pings'[k] = {}
                     /\ pc'[k] = "Active"]_vars

\* C2 witness: a relay has been closed by a timer firing for liveness
\* exhaustion.
C2_Witness ==
    \E k \in SessionKeys :
        /\ pc[k] = "Closed" /\ exit[k] = "liveness"
        /\ ev.by = k /\ ev.kind = "timer"

\* C3 as claimed: the third consecutive timer firing with no pong in between
\* closes the relay (taken in the case most favourable to the claim: the two
\* earlier firings each sent a ping that is still pending).
C3_Original ==
    [][\A k \in SessionKeys :
          ( /\ pc[k] = "Active"
            /\ firings[k] = MAX_PENDING_PINGS - 1
            /\ Cardinality(pending_pings[k]) = MAX_PENDING_PINGS - 1
            /\ Took(k, "timer") )
             => pc'[k] = "Closed"]_vars

\* C3 amended: a timer firing closes an Active relay exactly when the set
\* already holds MAX_PENDING_PINGS identifiers as the firing is processed; so
\* the relay is still Active after its first three consecutive firings with no
\* pong in between, and the fourth is the earliest that closes it.
C3_ClosedAtFourthEarliest ==
    [][\A k \in SessionKeys :
          (pc[k] = "Active" /\ Took(k, "timer")) =>
             /\ (pc'[k] = "Closed") <=> AtBound(k)
             /\ firings[k] < MAX_PENDING_PINGS => pc'[k] = "Active"
             /\ pc'[k] = "Closed" => exit'[k] = "liveness"]_vars

\* C3 witness: the third consecutive firing has been processed, three pings
\* are pending and the relay is still Active.
C3_Witness ==
    \E k \in SessionKeys :
        /\ pc[k] = "Active"
        /\ ev.by = k /\ ev.kind = "timer"
        /\ firings[k] = MAX_PENDING_PINGS
        /\ Cardinality(pending_pings[k]) = MAX_PENDING_PINGS

\* C4: an inbound Response with the empty result and a numeric id that is in
\* the Pending Ping Set empties the whole set and sends nothing to the
\* backend.
C4_PongClearsAll ==
    [][\A k \in SessionKeys :
          ( /\ pc[k] = "Active"
            /\ Took(k, "session_msg")
            /\ ev'.blob.wire = "json"
            /\ ev'.blob.kind = "Response"
            /\ ev'.blob.result = "empty"
            /\ ev'.blob.id \in pending_pings[k] )
             => /\ pending_pings'[k] = {}
                /\ out'.backend = << >>
                /\ pc'[k] = "Active"]_vars

\* C4 witness: an empty-result Response with a numeric id has been consumed by
\* a relay that had sent pings, nothing went to the backend and the set is
\* empty (an id that is not pending would have been forwarded).
C4_Witness ==
    \E k \in SessionKeys :
        /\ pc[k] = "Active"
        /\ ev.by = k /\ ev.kind = "session_msg"
        /\ ev.blob.kind = "Response" /\ ev.blob.result = "empty" /\ ev.blob.id >= 0
        /\ out.backend = << >>
        /\ pending_pings[k] = {}
        /\ firings[k] = 0

\* C5: every inbound envelope that deserializes and is not a pong is handed to
\* the backend sink exactly once and unchanged, and leaves the Pending Ping
\* Set unchanged.
C5_NonPongForwarded ==
    [][\A k \in SessionKeys :
          ( /\ pc[k] = "Active"
            /\ Took(k, "session_msg")
            /\ ev'.blob.wire = "json"
            /\ ~ ( /\ ev'.blob.kind = "Response"
                   /\ ev'.blob.result = "empty"
                   /\ ev'.blob.id \in pending_pings[k] ) )
             => /\ out'.backend = << [kind |-> ev'.blob.kind,
                                      result |-> ev'.blob.result,
                                      id |-> ev'.blob.id] >>
                /\ pending_pings'[k] = pending_pings[k]
                /\ pc'[k] = "Active"]_vars

\* C5 witness: an empty-result Response with a numeric id that is not pending
\* has been forwarded while other pings are pending.
C5_Witness ==
    \E k \in SessionKeys :
        /\ pc[k] = "Active"
        /\ ev.by = k /\ ev.kind = "session_msg"
        /\ ev.blob.kind = "Response" /\ ev.blob.result = "empty" /\ ev.blob.id >= 0
        /\ Len(out.backend) = 1
        /\ pending_pings[k] # {}
        /\ ev.blob.id \notin pending_pings[k]

\* C6: a backend message is published to the fabric only in the step that
\* takes it from the backend stream, and only by a relay that had captured
\* incoming_conn_id before that step; a backend message that arrives earlier
\* is dropped (nothing is published, nothing is kept) and the relay stays
\* Active.
C6_NoPublishBeforeRouting ==
    [][ /\ \A k \in SessionKeys :
              (pc[k] = "Active" /\ Took(k, "mcp_msg") /\ incoming_conn_id[k] = None)
                 => /\ out'.fabric = << >>
                    /\ pc'[k] = "Active"
                    /\ incoming_conn_id'[k] = None
        /\ (out'.fabric # << >> /\ out'.fabric[1].what = "mcp")
              => /\ ev'.kind = "mcp_msg"
                 /\ incoming_conn_id[ev'.by] # None
                 /\ out'.fabric[1].conn = incoming_conn_id[ev'.by]
                 /\ out'.fabric[1].body = ev'.body ]_vars

\* C6 witness: a backend message has been consumed by an Active relay with no
\* routing info, and nothing was published.
C6_Witness ==
    \E k \in SessionKeys :
        /\ pc[k] = "Active"
        /\ ev.by = k /\ ev.kind = "mcp_msg"
        /\ incoming_conn_id[k] = None
        /\ out.fabric = << >>

\* C7: a relay leaves Active only on: inbound channel closed, inbound channel
\* error, backend stream end, dropped session handle, liveness exhaustion or
\* liveness channel closed.  An inbound message (empty payload, payload that
\* does not deserialize, failed send to the backend) never ends it.
C7_OnlyTerminalConditions ==
    [][\A k \in SessionKeys :
          /\ (pc[k] = "Active" /\ pc'[k] # "Active") =>
                /\ pc'[k] = "Closed"
                /\ ev'.by = k
                /\ \/ ev'.kind = "session_closed" /\ exit'[k] = "channel_closed"
                   \/ ev'.kind = "session_error" /\ exit'[k] = "channel_error"
                   \/ ev'.kind = "mcp_end" /\ exit'[k] = "mcp_end"
                   \/ ev'.kind = "mcp_msg" /\ exit'[k] = "session_dropped"
                   \/ ev'.kind = "timer" /\ exit'[k] = "liveness"
                   \/ ev'.kind = "timer_closed" /\ exit'[k] = "timer_closed"
          /\ (pc[k] = "Active" /\ Took(k, "session_msg")) => pc'[k] = "Active"]_vars

\* C7 witness: the send of a forwarded message to the backend has failed and
\* the relay is Active.
C7_Witness ==
    \E k \in SessionKeys :
        /\ pc[k] = "Active"
        /\ ev.by = k /\ ev.kind = "session_msg"
        /\ out.backend # << >>
        /\ ~ev.ok

\* C8 as claimed: a relay that started its liveness timer is never Closed with
\* the timer not stopped or the send side of the outbound stream not closed.
C8_Original ==
    \A k \in SessionKeys :
        (pc[k] = "Closed" /\ ping_timer[k] # "none")
           => (ping_timer[k] = "stopped" /\ sink[k] = "closed")

\* C9: the termination of one relay changes no state of the controller, of
\* the registry, of the session service or of any other relay.
C9_TerminationIsLocal ==
    [][\A k \in SessionKeys :
          (pc[k] \in {"Spawned", "Connecting", "Active"} /\ pc'[k] = "Closed") =>
             /\ ctl' = ctl
             /\ connections' = connections
             /\ service' = service
             /\ \A q \in SessionKeys \ {k} :
                   /\ pc'[q] = pc[q]
                   /\ exit'[q] = exit[q]
                   /\ incoming_conn_id'[q] = incoming_conn_id[q]
                   /\ pending_pings'[q] = pending_pings[q]
                   /\ ping_timer'[q] = ping_timer[q]
                   /\ sink'[q] = sink[q]
                   /\ owner'[q] = owner[q]]_vars

\* C9 witness: a relay has just been closed for liveness exhaustion while the
\* controller is in its loop, both sessions are registered and the other
\* relay is Active with routing info and pending pings.
C9_Witness ==
    \E k \in SessionKeys, q \in SessionKeys :
        /\ k # q
        /\ pc[k] = "Closed" /\ exit[k] = "liveness" /\ ev.by = k
        /\ pc[q] = "Active"
        /\ incoming_conn_id[q] # None
        /\ pending_pings[q] # {}
        /\ ctl = "loop"
        /\ connections = {k, q}

\* C10: a NewSession notification inserts its key into the registry and
\* spawns exactly one relay, the one of that key; a NewMessage notification
\* and a notification-stream error leave the registry and every relay as they
\* are and the controller in its loop.
C10_ControllerLoop ==
    [][ /\ ev'.kind = "new_session" =>
              /\ ctl = "loop" /\ ctl' = "loop"
              /\ connections' = connections \cup {ev'.by}
              /\ pc[ev'.by] = "Unborn"
              /\ pc' = [pc EXCEPT ![ev'.by] = "Spawned"]
        /\ ev'.kind \in {"new_message", "notif_error"} =>
              /\ ctl = "loop" /\ ctl' = "loop"
              /\ connections' = connections
              /\ service' = service
              /\ pc' = pc ]_vars

\* C10 witness: after a notification-stream error the controller is in its
\* loop with both sessions registered and both relays spawned.
C10_Witness ==
    /\ ev.kind = "notif_error"
    /\ ctl = "loop"
    /\ connections = SessionKeys
    /\ \A k \in SessionKeys : pc[k] # "Unborn"

\* the sessions announced so far: those whose relay task has been spawned
Launched == { k \in SessionKeys : pc[k] # "Unborn" }

TerminalEvents ==
    { "session_closed", "session_error", "mcp_end", "mcp_msg", "timer_closed", "timer" }

\* C12: a step of the controller (a notification, the shutdown signal, the
\* exit with the clearing of the registry and the shutdown of the service)
\* changes no state of a relay other than spawning the one of a new session,
\* and a relay leaves Active only in a step of its own that consumes one of
\* its terminal events.
C12_NoCancelNoJoin ==
    [][ /\ ev'.by = Ctl =>
              /\ pc' = pc /\ exit' = exit /\ sink' = sink
              /\ ping_timer' = ping_timer
              /\ pending_pings' = pending_pings
              /\ incoming_conn_id' = incoming_conn_id
        /\ ev'.kind = "new_session" =>
              /\ \A q \in SessionKeys \ {ev'.by} : pc'[q] = pc[q]
              /\ exit' = exit /\ sink' = sink /\ ping_timer' = ping_timer
        /\ \A k \in SessionKeys :
              (pc[k] = "Active" /\ pc'[k] # "Active") =>
                  /\ ev'.by = k
                  /\ ev'.kind \in TerminalEvents
                  /\ pc'[k] = "Closed" ]_vars

\* C12 witness: the controller has completed its shutdown (registry cleared,
\* service shut down) while a relay is Active with its backend connection
\* open and its timer running.
C12_Witness ==
    \E k \in SessionKeys :
        /\ ctl = "stopped"
        /\ service = "shutdown"
        /\ connections = {}
        /\ pc[k] = "Active"
        /\ sink[k] = "open"
        /\ ping_timer[k] = "started"

\* an inbound message with a payload that parses reaches an Active relay that
\* has captured no routing info yet
FirstValid(k) ==
    /\ pc[k] = "Active"
    /\ Took(k, "session_msg")
    /\ incoming_conn_id[k] = None
    /\ from_slice(ev'.blob) # ParseErr
    /\ ev'.blob.wire = "json"

\* C13 as stated: such a message is not forwarded to the backend, and the
\* relay stays Active.
C13_Original ==
    [][\A k \in SessionKeys :
          FirstValid(k) => /\ out'.backend = << >>
                           /\ pc'[k] = "Active"]_vars

\* C13: such a message initialises the routing with its own connection id
\* and is handed to the backend sink, once and as parsed, like any later
\* message; nothing is published to the fabric and the relay stays Active,
\* whether or not the send succeeds.
C13_FirstMessageRelayed ==
    [][\A k \in SessionKeys :
          FirstValid(k) => /\ incoming_conn_id'[k] = ev'.conn
                           /\ out'.captured
                           /\ out'.backend = << from_slice(ev'.blob) >>
                           /\ out'.fabric = << >>
                           /\ pending_pings'[k] = {}
                           /\ pc'[k] = "Active"]_vars

\* C13 witness: the step that initialised the routing consumed a request and
\* handed it to the backend.
C13_Witness ==
    \E k \in SessionKeys :
        /\ ev.by = k /\ ev.kind = "session_msg"
        /\ out.captured
        /\ ev.blob.wire = "json" /\ ev.blob.kind = "Request"
        /\ out.backend = << from_slice(ev.blob) >>
        /\ incoming_conn_id[k] = ev.conn
        /\ pc[k] = "Active"

\* the positions of the separator in a name
Slashes(s) == { i \in 1 .. Len(s) : s[i] = "/" }

\* a name of exactly three slash-separated components, none of them empty:
\* two separators, none at either end, no two adjacent
ThreeNonEmpty(s) ==
    /\ Cardinality(Slashes(s)) = 2
    /\ 1 \notin Slashes(s)
    /\ Len(s) \notin Slashes(s)
    /\ \A i \in Slashes(s) : (i + 1) \notin Slashes(s)

\* C14 as stated: the session service is touched only if the name has
\* exactly three non-empty components, and with any other name the startup
\* has aborted and the service is untouched.
C14_Original ==
    /\ service # "idle" => ThreeNonEmpty(name)
    /\ (ctl # "main" /\ ~ThreeNonEmpty(name)) => (ctl = "aborted" /\ service = "idle")

\* the step just taken published exactly one ping and nothing else
Pinged ==
    /\ Len(out'.fabric) = 1
    /\ out'.fabric[1].what = "ping"
    /\ out'.backend = << >>

\* C15 as stated: every firing processed by an Active relay below the bound
\* publishes a ping whose identifier is in the set afterwards, and the relay
\* stays Active; at the bound the relay terminates instead.
C15_Original ==
    [][\A k \in SessionKeys :
          (pc[k] = "Active" /\ Took(k, "timer")) =>
              IF AtBound(k)
              THEN pc'[k] = "Closed"
              ELSE /\ Pinged
                   /\ out'.fabric[1].body \in pending_pings'[k]
                   /\ pc'[k] = "Active"]_vars

\* C15: a firing processed by an Active relay below the bound publishes a
\* ping only if routing info has been captured: the ping goes to the captured
\* connection and its identifier has been inserted into the set, which is
\* otherwise unchanged, whether or not the publish succeeds.  Without routing
\* info the firing sends nothing and leaves the set as it is.  In both cases
\* the relay stays Active.  At the bound the relay terminates for liveness
\* exhaustion and sends nothing.
C15_PingWhenRouted ==
    [][\A k \in SessionKeys :
          (pc[k] = "Active" /\ Took(k, "timer")) =>
              IF AtBound(k)
              THEN /\ pc'[k] = "Closed"
                   /\ exit'[k] = "liveness"
                   /\ out' = Nothing
              ELSE IF incoming_conn_id[k] # None
              THEN /\ Pinged
                   /\ out'.fabric[1].conn = incoming_conn_id[k]
                   /\ pending_pings'[k] = pending_pings[k] \cup {out'.fabric[1].body}
                   /\ pc'[k] = "Active"
              ELSE /\ out' = Nothing
                   /\ pending_pings'[k] = pending_pings[k]
                   /\ pc'[k] = "Active"]_vars

\* C15 witness: a firing has just published the second outstanding ping; the
\* publish failed and the identifier is in the set all the same.
C15_Witness ==
    \E k \in SessionKeys :
        /\ ev.by = k /\ ev.kind = "timer" /\ ~ev.ok
        /\ Len(out.fabric) = 1
        /\ out.fabric[1].what = "ping"
        /\ out.fabric[1].body \in pending_pings[k]
        /\ Cardinality(pending_pings[k]) = 2
        /\ pc[k] = "Active"

\* C17: a relay whose connection to the backend fails goes from Connecting
\* to Closed in that step, with the timer never started and no sink; from then
\* on it stays Closed, its timer and sink stay as they are, and it takes no
\* step and sends nothing: no second attempt, no loop, no forward, no ping.
C17_ConnectFailureIsFinal ==
    [][\A k \in SessionKeys :
          /\ (pc[k] = "Connecting" /\ Took(k, "connect") /\ ~ev'.ok) =>
                /\ pc'[k] = "Closed"
                /\ exit'[k] = "connect_failed"
                /\ ping_timer'[k] = "none"
                /\ sink'[k] = "none"
                /\ out' = Nothing
          /\ exit[k] = "connect_failed" =>
                /\ pc'[k] = "Closed"
                /\ exit'[k] = "connect_failed"
                /\ ping_timer'[k] = "none"
                /\ sink'[k] = "none"
                /\ incoming_conn_id'[k] = None
                /\ pending_pings'[k] = {}
                /\ ev'.by = k => (ev'.kind = "drop_owner" /\ out' = Nothing) ]_vars

\* C17 witness: the connection attempt of a relay has just failed; the relay
\* is Closed, its timer was never started and it has no sink.
C17_Witness ==
    \E k \in SessionKeys :
        /\ ev.by = k /\ ev.kind = "connect" /\ ~ev.ok
        /\ pc[k] = "Closed"
        /\ exit[k] = "connect_failed"
        /\ ping_timer[k] = "none"
        /\ sink[k] = "none"

\* C18 as stated: the size of the Pending Ping Set is the number of pings
\* published since the last pong (or since the start).  The set is empty at
\* the start and after a pong, so this says that every ping a relay
\* publishes makes its set one larger, whatever identifier was drawn; with
\* that, the check at the bound stops the relay after MAX_PENDING_PINGS
\* unanswered pings.
C18_Original ==
    [][\A k \in SessionKeys :
          (pc[k] = "Active" /\ Took(k, "timer") /\ Pinged) =>
              Cardinality(pending_pings'[k]) = Cardinality(pending_pings[k]) + 1]_vars

\* identifiers of pings that relay k has published and the peer has not
\* answered yet, as far as the state tells: the pending ones and, when the
\* last step was a pong of this relay, the ones that pong cleared other than
\* the one it answered
Unanswered(k) ==
    pending_pings[k] \cup
        (IF ev.by = k /\ ev.kind = "session_msg" THEN out.cleared \ {ev.blob.id} ELSE {})

\* C19 as stated: an empty-result response whose identifier is that of a ping
\* this relay published and that is still unanswered is not handed to the
\* backend, also when an earlier pong has already cleared the set.
C19_Original ==
    [][\A k \in SessionKeys :
          ( /\ pc[k] = "Active"
            /\ Took(k, "session_msg")
            /\ ev'.blob.wire = "json"
            /\ ev'.blob.kind = "Response"
            /\ ev'.blob.result = "empty"
            /\ ev'.blob.id \in Unanswered(k) ) =>
              out'.backend = << >>]_vars

\* C20: the inbound message a relay consumes while it has no connection id
\* gives it one, its own, whatever its payload (absent, unparsable or valid);
\* a relay that has a connection id keeps it as long as it is Active, whatever
\* connection id later messages carry; and everything a relay publishes to
\* the fabric, ping or backend message, goes to the connection id it holds.
C20_FirstConnIdSticks ==
    [][\A k \in SessionKeys :
          /\ (pc[k] = "Active" /\ Took(k, "session_msg")) =>
                /\ out'.captured = (incoming_conn_id[k] = None)
                /\ incoming_conn_id[k] = None => incoming_conn_id'[k] = ev'.conn
                /\ incoming_conn_id'[k] # None
          /\ (incoming_conn_id[k] # None /\ pc'[k] = "Active") =>
                incoming_conn_id'[k] = incoming_conn_id[k]
          /\ (ev'.by = k /\ out'.fabric # << >>) =>
                /\ incoming_conn_id[k] # None
                /\ \A i \in 1 .. Len(out'.fabric) :
                      out'.fabric[i].conn = incoming_conn_id[k] ]_vars

\* C20 witness: the routing was initialised by a message whose payload does
\* not parse and which was not forwarded; the relay holds that message's
\* connection id.
C20_Witness ==
    \E k \in SessionKeys :
        /\ ev.by = k /\ ev.kind = "session_msg"
        /\ ev.blob.wire = "garbage"
        /\ out.captured
        /\ out.backend = << >>
        /\ incoming_conn_id[k] = ev.conn
        /\ pc[k] = "Active"

====
